---- MODULE Spec2Model ----
(***************************************************************************)
(* BracketForge v6.1 (app.py): the energy / cast / cycle arithmetic of one *)
(* run of the script.  A run reads the sidebar widgets and the roster      *)
(* editor, computes the spendable energy, optionally auto-assigns roles,   *)
(* and computes the totals.                                                *)
(***************************************************************************)
EXTENDS Integers, Sequences, FiniteSets, TLC

VARIABLES
    pc,               \* position of the script run
    start_energy,     \* sidebar: starting energy per player
    energy_cap,       \* sidebar: energy cap per player
    duration_min,     \* sidebar: play window (minutes)
    tick_minutes,     \* sidebar: minutes per energy tick
    reserve_opener,   \* sidebar: checkbox
    auto_clicked,     \* sidebar: Auto-Assign button
    roster,           \* the list object the data editor returned
    edited,           \* the script's variable `edited`
    energy_spendable, \* the script's variable `energy_spendable`
    totals            \* the tuple compute_totals returned, by name

vars == <<pc, start_energy, energy_cap, duration_min, tick_minutes,
          reserve_opener, auto_clicked, roster, edited, energy_spendable, totals>>

----------------------------------------------------------------------------
(* Bounds of the model *)

MaxRows == 2
MaxStart == 3
LevelSlack == 1
MaxPlayerEnergy == 44
MaxWindowStart == 3
MaxWindowCap == 4
MaxWindowDuration == 12
MaxWindowTick == 5

----------------------------------------------------------------------------
(* Built-in points matrix (levels 1-20) *)

LEVELS == 1..20

MAG_POINTS == <<300,330,365,400,440,485,535,590,650,715,785,865,950,1045,1150,1265,1390,1530,1685,1855>>

SB_POINTS == <<700,850,1000,1150,1300,1450,1600,1750,1900,2050,2200,2300,2500,2650,2800,2950,3100,3250,3400,3550>>

\* MAG_LOOKUP.get(int(level), 0)
pts_mag(level) == IF level \in LEVELS THEN MAG_POINTS[level] ELSE 0

\* SB_LOOKUP.get(int(level), 0)
pts_sb(level) == IF level \in LEVELS THEN SB_POINTS[level] ELSE 0

----------------------------------------------------------------------------
(* Roles & energy *)

\* the placeholder role; the source spells it with em dashes
SELECT == "-- Select --"
SB_ONLY == "SB-only (3 SB)"
ONE_SB_7_MAG == "1 SB + 7 Mag"
TWO_SB_3_MAG == "2 SB + 3 Mag"
MAG_ONLY == "Mag-only (10 Mag)"

ROLE_DEFS ==
    (SELECT :> [sb |-> 0, mag |-> 0, energy_unit |-> 0]) @@
    (SB_ONLY :> [sb |-> 3, mag |-> 0, energy_unit |-> 7]) @@
    (ONE_SB_7_MAG :> [sb |-> 1, mag |-> 7, energy_unit |-> 21]) @@
    (TWO_SB_3_MAG :> [sb |-> 2, mag |-> 3, energy_unit |-> 20]) @@
    (MAG_ONLY :> [sb |-> 0, mag |-> 10, energy_unit |-> 2])

ROLES_ORDER == <<SB_ONLY, ONE_SB_7_MAG, TWO_SB_3_MAG, MAG_ONLY>>

\* Python's ordering of the role strings (code point order): digits sort
\* before capitals, and "M" before "S".
RoleRank(role) ==
    CASE role = ONE_SB_7_MAG -> 1
      [] role = TWO_SB_3_MAG -> 2
      [] role = MAG_ONLY -> 3
      [] role = SB_ONLY -> 4
      [] OTHER -> 5

----------------------------------------------------------------------------
(* Roster *)

PlayerName(i) == <<"Player", i>>

default_roster(n) ==
    [i \in 1..n |-> [name |-> PlayerName(i), sb_level |-> 0, mag_level |-> 0, role |-> SELECT]]

----------------------------------------------------------------------------
(* Energy window math *)

Min(a, b) == IF a <= b THEN a ELSE b

\* the cap forgotten
spendable_energy_per_player_NoCap(start, cap, duration, tick) ==
    LET base == start
        ticks == duration \div tick
    IN  base + ticks

spendable_energy_per_player(start, cap, duration, tick) ==
    LET base == Min(start, cap)
        ticks == duration \div tick
    IN  base + ticks

\* "1 SB + 7 Mag" counted in units of 20 energy, like "2 SB + 3 Mag"
role_casts_for_player_Unit20(role, sb_level, mag_level, energy) ==
    IF role = SB_ONLY THEN
        <<energy \div 7, 0, (energy \div 7) * pts_sb(sb_level), 0>>
    ELSE IF role = MAG_ONLY THEN
        <<0, energy \div 2, 0, (energy \div 2) * pts_mag(mag_level)>>
    ELSE IF role = TWO_SB_3_MAG THEN
        <<2 * (energy \div 20), 3 * (energy \div 20),
          2 * (energy \div 20) * pts_sb(sb_level), 3 * (energy \div 20) * pts_mag(mag_level)>>
    ELSE IF role = ONE_SB_7_MAG THEN
        <<energy \div 20, 7 * (energy \div 20),
          (energy \div 20) * pts_sb(sb_level), 7 * (energy \div 20) * pts_mag(mag_level)>>
    ELSE <<0, 0, 0, 0>>

\* "SB-only (3 SB)" credited with the 3 casts of its label per 7 energy
role_casts_for_player_TripleSb(role, sb_level, mag_level, energy) ==
    IF role = SB_ONLY THEN
        <<3 * (energy \div 7), 0, 3 * (energy \div 7) * pts_sb(sb_level), 0>>
    ELSE IF role = MAG_ONLY THEN
        <<0, energy \div 2, 0, (energy \div 2) * pts_mag(mag_level)>>
    ELSE IF role = TWO_SB_3_MAG THEN
        <<2 * (energy \div 20), 3 * (energy \div 20),
          2 * (energy \div 20) * pts_sb(sb_level), 3 * (energy \div 20) * pts_mag(mag_level)>>
    ELSE IF role = ONE_SB_7_MAG THEN
        <<energy \div 21, 7 * (energy \div 21),
          (energy \div 21) * pts_sb(sb_level), 7 * (energy \div 21) * pts_mag(mag_level)>>
    ELSE <<0, 0, 0, 0>>

role_casts_for_player(role, sb_level, mag_level, energy) ==
    IF role = SB_ONLY THEN
        LET sb_casts == energy \div 7
        IN  <<sb_casts, 0, sb_casts * pts_sb(sb_level), 0>>
    ELSE IF role = MAG_ONLY THEN
        LET mag_casts == energy \div 2
        IN  <<0, mag_casts, 0, mag_casts * pts_mag(mag_level)>>
    ELSE IF role = TWO_SB_3_MAG THEN
        LET units == energy \div 20
            sb_casts == 2 * units
            mag_casts == 3 * units
        IN  <<sb_casts, mag_casts, sb_casts * pts_sb(sb_level), mag_casts * pts_mag(mag_level)>>
    ELSE IF role = ONE_SB_7_MAG THEN
        LET units == energy \div 21
            sb_casts == 1 * units
            mag_casts == 7 * units
        IN  <<sb_casts, mag_casts, sb_casts * pts_sb(sb_level), mag_casts * pts_mag(mag_level)>>
    ELSE <<0, 0, 0, 0>>

----------------------------------------------------------------------------
(* Auto-assign for this window *)

\* Python's < on the candidate tuples (pts, sb_casts, mag_casts, role)
TupleLess(a, b) ==
    \/ a[1] < b[1]
    \/ a[1] = b[1] /\ a[2] < b[2]
    \/ a[1] = b[1] /\ a[2] = b[2] /\ a[3] < b[3]
    \/ a[1] = b[1] /\ a[2] = b[2] /\ a[3] = b[3] /\ RoleRank(a[4]) < RoleRank(b[4])

\* max(candidates): the first element no other element exceeds
RECURSIVE MaxFrom(_, _, _)
MaxFrom(cands, i, best) ==
    IF i > Len(cands) THEN best
    ELSE MaxFrom(cands, i + 1, IF TupleLess(best, cands[i]) THEN cands[i] ELSE best)

TupleMax(cands) == MaxFrom(cands, 2, cands[1])

\* no fallback role for a player without SB
Allowed_NoFallback(r) == IF r.sb_level > 0 THEN ROLES_ORDER ELSE <<>>

Allowed(r) == IF r.sb_level > 0 THEN ROLES_ORDER ELSE <<MAG_ONLY>>

\* candidates ranked by their SB points alone
Candidates_SbPointsOnly(r, energy) ==
    LET allowed == Allowed(r)
    IN  [k \in 1..Len(allowed) |->
            LET c == role_casts_for_player(allowed[k], r.sb_level, r.mag_level, energy)
                pts == c[3]
            IN  <<pts, c[1], c[2], allowed[k]>>]

Candidates(r, energy) ==
    LET allowed == Allowed(r)
    IN  [k \in 1..Len(allowed) |->
            LET c == role_casts_for_player(allowed[k], r.sb_level, r.mag_level, energy)
                pts == c[3] + c[4]
            IN  <<pts, c[1], c[2], allowed[k]>>]

Best(r, energy) ==
    LET candidates == Candidates(r, energy)
    IN  IF Len(candidates) > 0 THEN TupleMax(candidates) ELSE <<0, 0, 0, SELECT>>

auto_assign_window(rows, energy) ==
    [i \in 1..Len(rows) |-> [rows[i] EXCEPT !.role = Best(rows[i], energy)[4]]]

----------------------------------------------------------------------------
(* Compute totals & cycles *)

PerRow(r, energy) ==
    LET c == role_casts_for_player(r.role, r.sb_level, r.mag_level, energy)
    IN  [name |-> r.name, sb_level |-> r.sb_level, mag_level |-> r.mag_level,
         role |-> r.role,
         sb_casts |-> c[1],
         mag_casts |-> c[2],
         pts_per_sb |-> pts_sb(r.sb_level),
         pts_per_mag |-> pts_mag(r.mag_level),
         sb_points |-> c[3],
         mag_points |-> c[4],
         player_points |-> c[3] + c[4]]

\* the last row left out of the totals
RECURSIVE Accumulate_SkipLast(_, _, _, _)
Accumulate_SkipLast(rows, energy, k, i) ==
    IF i >= Len(rows) THEN 0
    ELSE role_casts_for_player(rows[i].role, rows[i].sb_level, rows[i].mag_level, energy)[k]
         + Accumulate_SkipLast(rows, energy, k, i + 1)

\* the accumulation of one component of role_casts_for_player over the rows
RECURSIVE Accumulate(_, _, _, _)
Accumulate(rows, energy, k, i) ==
    IF i > Len(rows) THEN 0
    ELSE role_casts_for_player(rows[i].role, rows[i].sb_level, rows[i].mag_level, energy)[k]
         + Accumulate(rows, energy, k, i + 1)

\* line 210
opener_needed_of(reserve) == IF reserve THEN 6 ELSE 0

\* the opener not taken off before the cycles are counted
cycles_of_NoOpener(total_sb_casts, total_mag_casts, reserve) ==
    IF total_mag_casts < opener_needed_of(reserve) THEN 0
    ELSE Min(total_sb_casts, total_mag_casts \div 3)

\* lines 211-217
cycles_of(total_sb_casts, total_mag_casts, reserve) ==
    IF total_mag_casts < opener_needed_of(reserve) THEN 0
    ELSE LET mag_after_opener == total_mag_casts - opener_needed_of(reserve)
         IN  Min(total_sb_casts, mag_after_opener \div 3)

\* the opener not taken off the Mag left over
leftover_mag_of_NoOpener(total_sb_casts, total_mag_casts, reserve) ==
    IF total_mag_casts < opener_needed_of(reserve) THEN total_mag_casts
    ELSE total_mag_casts - 3 * cycles_of(total_sb_casts, total_mag_casts, reserve)

\* lines 213 and 216-219
leftover_mag_of(total_sb_casts, total_mag_casts, reserve) ==
    IF total_mag_casts < opener_needed_of(reserve) THEN total_mag_casts
    ELSE LET mag_after_opener == total_mag_casts - opener_needed_of(reserve)
         IN  mag_after_opener - 3 * cycles_of(total_sb_casts, total_mag_casts, reserve)

\* lines 214, 218 and 221
sb_leftover_of(total_sb_casts, total_mag_casts, reserve) ==
    LET sb_used_in_cycles ==
            IF total_mag_casts < opener_needed_of(reserve) THEN 0
            ELSE cycles_of(total_sb_casts, total_mag_casts, reserve)
    IN  total_sb_casts - sb_used_in_cycles

\* the opener reported short although it is not reserved
status_of_NoReserveCheck(cycles, total_mag_casts, reserve) ==
    IF cycles > 0 THEN "OK"
    ELSE IF total_mag_casts < 6 THEN "Insufficient Mag for opener"
    ELSE "No cycles possible"

\* line 222
status_of(cycles, total_mag_casts, reserve) ==
    IF cycles > 0 THEN "OK"
    ELSE IF reserve /\ total_mag_casts < 6 THEN "Insufficient Mag for opener"
    ELSE "No cycles possible"

compute_totals(rows, energy, reserve) ==
    LET per == [i \in 1..Len(rows) |-> PerRow(rows[i], energy)]
        total_sb_casts == Accumulate(rows, energy, 1, 1)
        total_mag_casts == Accumulate(rows, energy, 2, 1)
        total_sb_points == Accumulate(rows, energy, 3, 1)
        total_mag_points == Accumulate(rows, energy, 4, 1)
        cycles == cycles_of(total_sb_casts, total_mag_casts, reserve)
        leftover_mag == leftover_mag_of(total_sb_casts, total_mag_casts, reserve)
        sb_leftover == sb_leftover_of(total_sb_casts, total_mag_casts, reserve)
        status == status_of(cycles, total_mag_casts, reserve)
        grand_total == total_sb_points + total_mag_points
    IN  [per |-> per,
         total_sb_casts |-> total_sb_casts,
         total_mag_casts |-> total_mag_casts,
         total_sb_points |-> total_sb_points,
         total_mag_points |-> total_mag_points,
         grand_total |-> grand_total,
         cycles |-> cycles,
         sb_leftover |-> sb_leftover,
         leftover_mag |-> leftover_mag,
         status |-> status]

\* before compute_totals has run there is no result
NoTotals ==
    [per |-> <<>>, total_sb_casts |-> 0, total_mag_casts |-> 0, total_sb_points |-> 0,
     total_mag_points |-> 0, grand_total |-> 0, cycles |-> 0, sb_leftover |-> 0,
     leftover_mag |-> 0, status |-> ""]

----------------------------------------------------------------------------
(* One run of the script *)

RoleValues == {SELECT, SB_ONLY, ONE_SB_7_MAG, TWO_SB_3_MAG, MAG_ONLY}

\* the rosters of n rows whose levels are drawn from Levels
RostersOf(n, Levels) ==
    {[i \in 1..n |-> [name |-> PlayerName(i), sb_level |-> f[i][1], mag_level |-> f[i][2],
                      role |-> f[i][3]]] :
        f \in [1..n -> Levels \X Levels \X RoleValues]}

InitWith(Starts, Caps, Durations, Ticks, Rosters) ==
    /\ pc = "energy"
    /\ start_energy \in Starts
    /\ energy_cap \in Caps
    /\ duration_min \in Durations
    /\ tick_minutes \in Ticks
    /\ reserve_opener \in BOOLEAN
    /\ auto_clicked \in BOOLEAN
    /\ roster \in Rosters
    /\ edited = roster
    /\ energy_spendable = 0
    /\ totals = NoTotals

\* line 184
ComputeEnergy ==
    /\ pc = "energy"
    /\ energy_spendable' = spendable_energy_per_player(start_energy, energy_cap, duration_min, tick_minutes)
    /\ pc' = "assign"
    /\ UNCHANGED <<start_energy, energy_cap, duration_min, tick_minutes, reserve_opener,
                   auto_clicked, roster, edited, totals>>

\* lines 185-187, button clicked
AutoAssign ==
    /\ pc = "assign"
    /\ auto_clicked
    /\ edited' = auto_assign_window(edited, energy_spendable)
    /\ pc' = "totals"
    /\ UNCHANGED <<start_energy, energy_cap, duration_min, tick_minutes, reserve_opener,
                   auto_clicked, roster, energy_spendable, totals>>

\* line 185, button not clicked
KeepRoles ==
    /\ pc = "assign"
    /\ ~auto_clicked
    /\ pc' = "totals"
    /\ UNCHANGED <<start_energy, energy_cap, duration_min, tick_minutes, reserve_opener,
                   auto_clicked, roster, edited, energy_spendable, totals>>

\* lines 226-228
ComputeTotals ==
    /\ pc = "totals"
    /\ totals' = compute_totals(edited, energy_spendable, reserve_opener)
    /\ pc' = "done"
    /\ UNCHANGED <<start_energy, energy_cap, duration_min, tick_minutes, reserve_opener,
                   auto_clicked, roster, edited, energy_spendable>>

Next == ComputeEnergy \/ AutoAssign \/ KeepRoles \/ ComputeTotals

----------------------------------------------------------------------------
(* Rosters of up to MaxRows players, at a few energy windows *)

RosterLevels == {0, 20}

TeamRosters == UNION {RostersOf(n, RosterLevels) : n \in 0..MaxRows}

Init == InitWith(0..MaxStart, {21}, {5, 30}, {1, 3}, TeamRosters)

Spec == Init /\ [][Next]_vars

(* One player at every level, and pairs of players, at every energy up to  *)
(* MaxPlayerEnergy (the window adds no tick: 5 minutes at 1 per 10)        *)

PlayerLevels == (0 - LevelSlack)..(20 + LevelSlack)

PlayerRosters == RostersOf(1, PlayerLevels) \cup RostersOf(2, RosterLevels)

InitPlayer == InitWith(0..MaxPlayerEnergy, {50}, {5}, {10}, PlayerRosters)

SpecPlayer == InitPlayer /\ [][Next]_vars

(* The energy window over the sidebar's inputs, default roster *)

InitWindow ==
    InitWith(0..MaxWindowStart, 1..MaxWindowCap, 5..MaxWindowDuration, 1..MaxWindowTick,
             {default_roster(1)})

SpecWindow == InitWindow /\ [][Next]_vars

----------------------------------------------------------------------------
(* Properties *)

Assigned == auto_clicked /\ pc \in {"totals", "done"}

Done == pc = "done"

PlayerPoints(role, r, energy) ==
    LET c == role_casts_for_player(role, r.sb_level, r.mag_level, energy)
    IN  c[3] + c[4]

Applicable(r) ==
    IF r.sb_level > 0 THEN {SB_ONLY, ONE_SB_7_MAG, TWO_SB_3_MAG, MAG_ONLY} ELSE {MAG_ONLY}

\* C1: after auto_assign_window, the role written to each row yields at least
\* the player points of every applicable role (all four roles when
\* sb_level > 0, only Mag-only otherwise), and it is the role the same row
\* gets when it is assigned alone.
C1_AutoAssignMaximizesPoints ==
    Assigned =>
        \A i \in 1..Len(edited) :
            /\ \A role \in Applicable(roster[i]) :
                   PlayerPoints(edited[i].role, roster[i], energy_spendable)
                       >= PlayerPoints(role, roster[i], energy_spendable)
            /\ edited[i].role = auto_assign_window(<<roster[i]>>, energy_spendable)[1].role

\* a player for whom a mixed role strictly beats SB-only and Mag-only
C1_Witness ==
    /\ Assigned
    /\ \E i \in 1..Len(edited) :
           /\ edited[i].role = TWO_SB_3_MAG
           /\ roster[i].role # TWO_SB_3_MAG
           /\ PlayerPoints(TWO_SB_3_MAG, roster[i], energy_spendable)
                  > PlayerPoints(SB_ONLY, roster[i], energy_spendable)
           /\ PlayerPoints(TWO_SB_3_MAG, roster[i], energy_spendable)
                  > PlayerPoints(MAG_ONLY, roster[i], energy_spendable)

ExpectedCasts(role, E) ==
    CASE role = SB_ONLY -> <<E \div 7, 0>>
      [] role = MAG_ONLY -> <<0, E \div 2>>
      [] role = TWO_SB_3_MAG -> <<2 * (E \div 20), 3 * (E \div 20)>>
      [] role = ONE_SB_7_MAG -> <<E \div 21, 7 * (E \div 21)>>
      [] OTHER -> <<0, 0>>

\* C2: the casts credited to each player are (E div 7, 0), (0, E div 2),
\* (2*(E div 20), 3*(E div 20)), (E div 21, 7*(E div 21)) by role and (0, 0)
\* for any other role value; the points are casts times the points per cast
\* of the level, and a level outside 1..20 is worth 0 per cast.
C2_RoleCasts ==
    Done =>
        \A i \in 1..Len(totals.per) :
            LET p == totals.per[i]
                per_sb == IF p.sb_level >= 1 /\ p.sb_level <= 20 THEN SB_POINTS[p.sb_level] ELSE 0
                per_mag == IF p.mag_level >= 1 /\ p.mag_level <= 20 THEN MAG_POINTS[p.mag_level] ELSE 0
            IN  /\ energy_spendable >= 0
                /\ <<p.sb_casts, p.mag_casts>> = ExpectedCasts(p.role, energy_spendable)
                /\ p.sb_points = p.sb_casts * per_sb
                /\ p.mag_points = p.mag_casts * per_mag
                /\ p.pts_per_sb = per_sb
                /\ p.pts_per_mag = per_mag

\* two units of "1 SB + 7 Mag" at levels of the points matrix
C2_Witness ==
    /\ Done
    /\ \E i \in 1..Len(totals.per) :
           /\ totals.per[i].role = ONE_SB_7_MAG
           /\ totals.per[i].sb_casts = 2
           /\ totals.per[i].mag_casts = 14
           /\ totals.per[i].sb_points = 2 * 1300
           /\ totals.per[i].mag_points = 14 * 1855

CastEnergy(p) == 7 * p.sb_casts + 2 * p.mag_casts

\* C3: the casts credited to a player never cost more than the spendable
\* energy (7 per SB cast, 2 per Mag cast), and for each of the four roles of
\* ROLES_ORDER the energy left unspent is smaller than the role's
\* energy_unit (7, 21, 20 or 2).
C3_CastsWithinEnergy ==
    Done =>
        \A i \in 1..Len(totals.per) :
            LET p == totals.per[i]
                unit == CASE p.role = SB_ONLY -> 7
                          [] p.role = ONE_SB_7_MAG -> 21
                          [] p.role = TWO_SB_3_MAG -> 20
                          [] p.role = MAG_ONLY -> 2
                          [] OTHER -> 0
            IN  /\ CastEnergy(p) <= energy_spendable
                /\ ROLE_DEFS[p.role].energy_unit = unit
                /\ p.role # SELECT => energy_spendable - CastEnergy(p) < unit

\* SB-only with the most energy left over that the role allows
C3_Witness ==
    /\ Done
    /\ \E i \in 1..Len(totals.per) :
           /\ totals.per[i].role = SB_ONLY
           /\ totals.per[i].sb_casts = 3
           /\ energy_spendable - CastEnergy(totals.per[i]) = 6

Opener == IF reserve_opener THEN 6 ELSE 0

Feasible(k) ==
    /\ k >= 0
    /\ k <= totals.total_sb_casts
    /\ Opener + 3 * k <= totals.total_mag_casts

\* C4: cycles is the largest k >= 0 with k <= total_sb_casts and
\* opener + 3*k <= total_mag_casts (opener = 6 when reserve_opener is on,
\* else 0), and cycles = 0 when total_mag_casts < opener.
C4_CyclesMaximal ==
    Done =>
        IF totals.total_mag_casts < Opener THEN totals.cycles = 0
        ELSE /\ Feasible(totals.cycles)
             /\ \A k \in 0..(totals.total_sb_casts + totals.total_mag_casts + 1) :
                    Feasible(k) => k <= totals.cycles

\* the opener is reserved and the Mag casts left after it limit the cycles
C4_Witness ==
    /\ Done
    /\ reserve_opener
    /\ totals.cycles >= 2
    /\ totals.cycles < totals.total_sb_casts
    /\ 3 * (totals.cycles + 1) <= totals.total_mag_casts

RECURSIVE SumField(_, _)
SumField(per, field) ==
    IF per = <<>> THEN 0 ELSE Head(per)[field] + SumField(Tail(per), field)

\* C5: the four totals are the sums over the rows of the per-row casts and
\* points, each row's player_points is its sb_points + mag_points,
\* grand_total = total_sb_points + total_mag_points = the sum of
\* player_points, and the per-row list has one entry per input row, in
\* input order.
C5_TotalsAreSums ==
    Done =>
        /\ totals.total_sb_casts = SumField(totals.per, "sb_casts")
        /\ totals.total_mag_casts = SumField(totals.per, "mag_casts")
        /\ totals.total_sb_points = SumField(totals.per, "sb_points")
        /\ totals.total_mag_points = SumField(totals.per, "mag_points")
        /\ totals.grand_total = totals.total_sb_points + totals.total_mag_points
        /\ totals.grand_total = SumField(totals.per, "player_points")
        /\ Len(totals.per) = Len(edited)
        /\ \A i \in 1..Len(edited) :
               /\ totals.per[i].player_points = totals.per[i].sb_points + totals.per[i].mag_points
               /\ totals.per[i].name = edited[i].name
               /\ totals.per[i].sb_level = edited[i].sb_level
               /\ totals.per[i].mag_level = edited[i].mag_level
               /\ totals.per[i].role = edited[i].role

\* two players who both score, one with SB points and one with Mag points
C5_Witness ==
    /\ Done
    /\ Len(totals.per) = 2
    /\ totals.per[1].sb_points > 0
    /\ totals.per[2].mag_points > 0
    /\ totals.per[2].sb_casts > 0
    /\ totals.total_sb_casts > totals.per[1].sb_casts

StatusValues == {"OK", "Insufficient Mag for opener", "No cycles possible"}

\* C6: status is "OK" exactly when cycles > 0, "Insufficient Mag for opener"
\* exactly when reserve_opener is on and total_mag_casts < 6, and
\* "No cycles possible" in every remaining case.
C6_StatusExclusive ==
    Done =>
        LET short == reserve_opener /\ totals.total_mag_casts < 6
        IN  /\ totals.status \in StatusValues
            /\ totals.status = "OK" <=> totals.cycles > 0
            /\ totals.status = "Insufficient Mag for opener" <=> short
            /\ totals.status = "No cycles possible" <=> (totals.cycles = 0 /\ ~short)

\* SB casts are there, but the reserved opener is not covered
C6_Witness ==
    /\ Done
    /\ totals.status = "Insufficient Mag for opener"
    /\ totals.total_sb_casts > 0
    /\ totals.total_mag_casts > 0

\* C7: sb_leftover >= 0 and leftover_mag >= 0; sb_leftover + cycles =
\* total_sb_casts; leftover_mag + 3*cycles + opener_used = total_mag_casts,
\* opener_used being 6 when reserve_opener is on and total_mag_casts >= 6,
\* else 0.
C7_CastsConserved ==
    Done =>
        LET opener_used == IF reserve_opener /\ totals.total_mag_casts >= 6 THEN 6 ELSE 0
        IN  /\ totals.sb_leftover >= 0
            /\ totals.leftover_mag >= 0
            /\ totals.sb_leftover + totals.cycles = totals.total_sb_casts
            /\ totals.leftover_mag + 3 * totals.cycles + opener_used = totals.total_mag_casts

\* cycles after a reserved opener, with casts of both kinds left over
C7_Witness ==
    /\ Done
    /\ reserve_opener
    /\ totals.cycles > 0
    /\ totals.sb_leftover > 0
    /\ totals.leftover_mag > 0

EnergyKnown == pc # "energy"

\* C8: the spendable energy is min(start, cap) plus one energy per complete
\* tick of the window; it is non-decreasing in start, cap and duration_min
\* and non-increasing in tick_minutes.
C8_SpendableEnergy ==
    EnergyKnown =>
        LET base == IF start_energy <= energy_cap THEN start_energy ELSE energy_cap
            ticks == energy_spendable - base
        IN  /\ tick_minutes >= 1
            /\ ticks >= 0
            /\ ticks * tick_minutes <= duration_min
            /\ duration_min < (ticks + 1) * tick_minutes
            /\ \A s \in start_energy..(MaxWindowStart + 1) :
                   spendable_energy_per_player(s, energy_cap, duration_min, tick_minutes)
                       >= energy_spendable
            /\ \A c \in energy_cap..(MaxWindowCap + 1) :
                   spendable_energy_per_player(start_energy, c, duration_min, tick_minutes)
                       >= energy_spendable
            /\ \A d \in duration_min..(MaxWindowDuration + 1) :
                   spendable_energy_per_player(start_energy, energy_cap, d, tick_minutes)
                       >= energy_spendable
            /\ \A t \in tick_minutes..(MaxWindowTick + 1) :
                   spendable_energy_per_player(start_energy, energy_cap, duration_min, t)
                       <= energy_spendable

\* the cap limits the start, and the window ends inside a tick
C8_Witness ==
    /\ EnergyKnown
    /\ start_energy > energy_cap
    /\ duration_min > 2 * tick_minutes
    /\ duration_min % tick_minutes # 0
    /\ energy_spendable = energy_cap + 2

\* C9: auto_assign_window returns as many rows, in the same order, each with
\* its name, sb_level and mag_level; every role written is one of the four
\* roles of ROLES_ORDER, Mag-only for a row whose sb_level <= 0; and the
\* rows it was given are left as they were.
C9_AutoAssignFrame ==
    [][(pc = "assign" /\ auto_clicked) =>
          /\ Len(edited') = Len(edited)
          /\ DOMAIN edited' = DOMAIN edited
          /\ \A i \in 1..Len(edited) :
                 /\ DOMAIN edited'[i] = DOMAIN edited[i]
                 /\ edited'[i].name = edited[i].name
                 /\ edited'[i].sb_level = edited[i].sb_level
                 /\ edited'[i].mag_level = edited[i].mag_level
                 /\ edited'[i].role \in {SB_ONLY, ONE_SB_7_MAG, TWO_SB_3_MAG, MAG_ONLY}
                 /\ edited[i].sb_level <= 0 => edited'[i].role = MAG_ONLY
          /\ roster' = roster]_vars

\* two players, the first without SB and holding another role before
C9_Witness ==
    /\ Assigned
    /\ Len(edited) = 2
    /\ roster[1].sb_level <= 0
    /\ roster[1].role = SB_ONLY
    /\ edited[1].role = MAG_ONLY
    /\ roster[2].role = SELECT
    /\ edited[2].role = SB_ONLY

====
